---------------------------- MODULE Spec2Model ----------------------------
(***************************************************************************)
(* Medicine Quality Monitor.                                               *)
(*                                                                         *)
(* The React front end (App, HomePage, AdminLogin, AdminDashboard) is      *)
(* modelled from its source: one action per event handler or promise       *)
(* continuation.  The verification engine behind POST /api/verify and the  *)
(* stats aggregator behind GET /api/stats (backend/server.py) are not part *)
(* of the source tree; they are modelled from the design document and      *)
(* live in their own specification, SpecEngine.                            *)
(***************************************************************************)
EXTENDS Integers, Sequences, FiniteSets, TLC

VARIABLES
    \* ---- browser / App (App.js)
    route,                \* the route whose element is rendered
    isAdminAuthenticated, \* App state
    adminToken,           \* App state
    toast,                \* the sonner toast on screen
    geoSupported,         \* whether navigator.geolocation exists
    \* ---- HomePage
    batchCode, loading, result,
    hvPc,                 \* where handleVerify is suspended: idle, geo, post
    position,             \* handleVerify's local `position`
    verifyReq,            \* body of the POST /api/verify sent by this submit
    verifyResp,           \* how that POST settled
    verifying,            \* handleVerify calls begun whose finally has not run
    \* ---- AdminLogin
    credentials, loginLoading,
    loginPc,              \* idle, post
    loginResp,            \* how the last POST /api/admin/login settled
    \* ---- AdminDashboard
    logs, stats, dashLoading, refreshing,
    fetchPc,              \* none, pending: fetchData awaiting Promise.all
    logsGet, statsGet,    \* state of the two GETs of the current fetchData
    \* ---- verification engine and stats aggregator (design document)
    scanCount,            \* Batch Registry: code -> scan count
    req,                  \* per request: its position and locals
    events,               \* Verification Logger: the append-only event log
    summary               \* the last Stats snapshot served

appVars   == <<route, isAdminAuthenticated, adminToken, toast, geoSupported>>
homeVars  == <<batchCode, loading, result, hvPc, position, verifyReq, verifyResp,
               verifying>>
loginVars == <<credentials, loginLoading, loginPc, loginResp>>
dashVars  == <<logs, stats, dashLoading, refreshing, fetchPc, logsGet, statsGet>>
engineVars == <<scanCount, req, events, summary>>
vars == <<appVars, homeVars, loginVars, dashVars, engineVars>>

-----------------------------------------------------------------------------
(* Bounds *)

\* longest text typed or pasted into a form field
MaxLen == 3
\* most log records GET /api/logs returns
MaxLogs == 21
\* verification requests the engine serves concurrently
MaxReqs == 2

-----------------------------------------------------------------------------
(* Values *)

\* JavaScript null / undefined
NullV == [isNull |-> TRUE]

Min(a, b) == IF a <= b THEN a ELSE b

\* Strings are sequences of characters: a lower-case letter, its upper-case
\* form and a white-space character.
Chars == {"a", "A", " "}
Texts == UNION {[1..n -> Chars] : n \in 0..MaxLen}

ToUpperChar(c) == IF c = "a" THEN "A" ELSE c

\* String.prototype.toUpperCase
ToUpperCase(s) == [i \in 1..Len(s) |-> ToUpperChar(s[i])]

IsSpace(c) == c = " "

RECURSIVE TrimStart(_)
TrimStart(s) == IF s # <<>> /\ IsSpace(Head(s)) THEN TrimStart(Tail(s)) ELSE s

RECURSIVE TrimEnd(_)
TrimEnd(s) ==
    IF s # <<>> /\ IsSpace(s[Len(s)]) THEN TrimEnd(SubSeq(s, 1, Len(s) - 1)) ELSE s

\* String.prototype.trim
Trim(s) == TrimEnd(TrimStart(s))

\* A status text is a sequence of words; status.includes(w) is membership.
Includes(status, w) == \E i \in 1..Len(status) : status[i] = w

NoToast == [kind |-> "none", msg |-> ""]
Toast(k, m) == [kind |-> k, msg |-> m]


-----------------------------------------------------------------------------
(* App: routes *)

Paths == {"/", "/admin/login", "/admin"}

Mut_ResolveRoute(path, auth) ==
    IF path = "/admin" THEN "/admin"
    ELSE IF path = "/admin/login" THEN (IF auth THEN "/admin" ELSE "/admin/login")
    ELSE "/"

\* The element rendered for a path: the two admin routes redirect to one
\* another on isAdminAuthenticated.
ResolveRoute(path, auth) ==
    IF path = "/admin" THEN (IF auth THEN "/admin" ELSE "/admin/login")
    ELSE IF path = "/admin/login" THEN (IF auth THEN "/admin" ELSE "/admin/login")
    ELSE "/"

HomePageRendered == route = "/"
AdminLoginRendered == route = "/admin/login"
AdminDashboardRendered == route = "/admin"

-----------------------------------------------------------------------------
(* HomePage *)

Mut_OnChangeValue(v) == v

\* onChange={(e) => setBatchCode(e.target.value.toUpperCase())}
OnChangeValue(v) == ToUpperCase(v)

Mut_IsBlank(code) == code = <<>>

\* !batchCode.trim()
IsBlank(code) == Trim(code) = <<>>

\* What navigator.geolocation.getCurrentPosition reports: a position through
\* the success callback, or one of the three GeolocationPositionError codes
\* through the error callback.
GeoOutcomes == {"position", "PERMISSION_DENIED", "POSITION_UNAVAILABLE", "TIMEOUT"}
Coords == {[latitude |-> 0, longitude |-> 7], [latitude |-> 41, longitude |-> 0]}

\* an exception propagating to handleVerify's catch block
Thrown == [thrown |-> TRUE]

Mut_AwaitPosition(outcome, coords) ==
    IF outcome = "position" THEN coords ELSE Thrown

\* await new Promise((resolve, reject) => getCurrentPosition(resolve, reject,
\* {timeout: 5000})).catch(() => null)
AwaitPosition(outcome, coords) ==
    IF outcome = "position" THEN coords ELSE NullV

\* {code: batchCode.trim(), ...location}
RequestBody(code, pos) ==
    IF pos = NullV
    THEN [code |-> Trim(code)]
    ELSE [code |-> Trim(code), lat |-> pos.latitude, lng |-> pos.longitude]

NoRequest == [none |-> TRUE]
NoResponse == [none |-> TRUE]

\* confidence is kept in percent (0.95 is 95)
Mut_ErrorResult ==
    [status |-> <<"Fake", "CROSS">>,
     reason |-> "Unable to connect to verification service",
     confidence |-> 0]

\* the result set in handleVerify's catch block
ErrorResult ==
    [status |-> <<"Error", "CROSS">>,
     reason |-> "Unable to connect to verification service",
     confidence |-> 0]

\* Bodies POST /api/verify may answer with: the four labels of the reference
\* server, two texts that hold two of the label words, a label no category
\* matches, a body without status, and no body.
ResponseData ==
    {[status |-> <<"Valid", "CHECK">>, reason |-> "authentic", confidence |-> 95],
     [status |-> <<"Expired", "WARNING">>, reason |-> "expired", confidence |-> 100],
     [status |-> <<"Fake", "CROSS">>, reason |-> "not found", confidence |-> 100],
     [status |-> <<"Suspected", "Counterfeit", "THINKING">>, reason |-> "unusual",
      confidence |-> 70],
     [status |-> <<"Expired", "Valid">>, reason |-> "two words", confidence |-> 60],
     [status |-> <<"Suspected", "Fake">>, reason |-> "two words", confidence |-> 80],
     [status |-> <<"Unknown">>, reason |-> "", confidence |-> 50],
     [reason |-> "no status", confidence |-> 50],
     NullV}

\* How the POST settles: the promise rejects (network error, non-2xx), or
\* resolves with a body.
VerifyResponses ==
    {[rejected |-> TRUE, data |-> NullV]}
        \cup {[rejected |-> FALSE, data |-> d] : d \in ResponseData}

\* response.data.status.includes(...) throws a TypeError when the body or its
\* status is missing.
HandlingThrows(data) == "status" \notin DOMAIN data

\* the toast chosen from the response's status
ToastFor(status) ==
    IF Includes(status, "Valid") THEN Toast("success", "Medicine verified as authentic!")
    ELSE IF Includes(status, "Expired") THEN Toast("warning", "Medicine is expired!")
    ELSE Toast("error", "Medicine verification failed!")

getStatusIcon(status) ==
    IF Includes(status, "Valid") THEN "CheckCircle"
    ELSE IF Includes(status, "Expired") THEN "AlertCircle"
    ELSE IF Includes(status, "Fake") THEN "XCircle"
    ELSE IF Includes(status, "Suspected") THEN "HelpCircle"
    ELSE "Shield"

Mut_getStatusColor(status) ==
    IF Includes(status, "Expired") THEN "amber"
    ELSE IF Includes(status, "Valid") THEN "emerald"
    ELSE IF Includes(status, "Fake") THEN "red"
    ELSE IF Includes(status, "Suspected") THEN "orange"
    ELSE "gray"

getStatusColor(status) ==
    IF Includes(status, "Valid") THEN "emerald"
    ELSE IF Includes(status, "Expired") THEN "amber"
    ELSE IF Includes(status, "Fake") THEN "red"
    ELSE IF Includes(status, "Suspected") THEN "orange"
    ELSE "gray"

EnterCodeToast == Toast("error", "Please enter a batch code")
VerifyFailedToast == Toast("error", "Failed to verify medicine. Please try again.")

\* catch block, then finally
VerifyCatch ==
    /\ result' = ErrorResult
    /\ toast' = VerifyFailedToast
    /\ loading' = FALSE
    /\ hvPc' = "idle"
    /\ verifying' = verifying - 1

\* <Input disabled={loading}>
InputDisabled == loading

Mut_SubmitButtonDisabled == IsBlank(batchCode)

\* <Button type="submit" disabled={loading || !batchCode.trim()}>
SubmitButtonDisabled == loading \/ IsBlank(batchCode)

\* The form's submit event comes from one of its controls: Enter in the
\* input or a click on the button, each only while that control is enabled.
\* (A browser that withholds Enter's submission while the button is disabled
\* delivers fewer submit events than this.)
CanSubmit == ~InputDisabled \/ ~SubmitButtonDisabled

\* The input's onChange.
InputOnChange(v) ==
    /\ HomePageRendered
    /\ ~InputDisabled
    /\ batchCode' = OnChangeValue(v)
    /\ UNCHANGED <<appVars, loading, result, hvPc, position, verifyReq, verifyResp,
                   verifying, loginVars, dashVars, engineVars>>

\* handleVerify from the form's submit event to its first await.
HandleVerify ==
    /\ HomePageRendered
    /\ CanSubmit
    /\ IF IsBlank(batchCode)
       THEN /\ toast' = EnterCodeToast
            /\ UNCHANGED <<loading, result, hvPc, position, verifyReq, verifyResp,
                           verifying>>
       ELSE /\ loading' = TRUE
            /\ verifying' = verifying + 1
            /\ result' = NullV
            /\ position' = NullV
            /\ verifyResp' = NoResponse
            /\ IF geoSupported
               THEN hvPc' = "geo" /\ verifyReq' = NoRequest
               ELSE hvPc' = "post" /\ verifyReq' = RequestBody(batchCode, NullV)
            /\ UNCHANGED toast
    /\ UNCHANGED <<route, isAdminAuthenticated, adminToken, geoSupported, batchCode,
                   loginVars, dashVars, engineVars>>

\* The geolocation promise settles and handleVerify runs on to axios.post.
GeoSettle(outcome, coords) ==
    /\ hvPc = "geo"
    /\ LET p == AwaitPosition(outcome, coords) IN
         IF p = Thrown
         THEN /\ VerifyCatch
              /\ UNCHANGED <<position, verifyReq>>
         ELSE /\ position' = p
              /\ verifyReq' = RequestBody(batchCode, p)
              /\ hvPc' = "post"
              /\ UNCHANGED <<loading, result, toast, verifying>>
    /\ UNCHANGED <<route, isAdminAuthenticated, adminToken, geoSupported, batchCode,
                   verifyResp, loginVars, dashVars, engineVars>>

\* The POST settles and handleVerify runs to its end.
VerifySettle(resp) ==
    /\ hvPc = "post"
    /\ verifyResp' = resp
    /\ IF resp.rejected \/ HandlingThrows(resp.data)
       THEN VerifyCatch
       ELSE /\ result' = resp.data
            /\ toast' = ToastFor(resp.data.status)
            /\ loading' = FALSE
            /\ hvPc' = "idle"
            /\ verifying' = verifying - 1
    /\ UNCHANGED <<route, isAdminAuthenticated, adminToken, geoSupported, batchCode,
                   position, verifyReq, loginVars, dashVars, engineVars>>

\* sonner removes a toast after its duration
ToastDismiss ==
    /\ toast # NoToast
    /\ toast' = NoToast
    /\ UNCHANGED <<route, isAdminAuthenticated, adminToken, geoSupported,
                   homeVars, loginVars, dashVars, engineVars>>

-----------------------------------------------------------------------------
(* Component state at mount and after unmount *)

NoCredentials == [username |-> <<>>, password |-> <<>>]

Pending == [state |-> "pending"]
NotSent == [state |-> "none"]
Rejected == [state |-> "rejected"]
Ok(d) == [state |-> "ok", data |-> d]

\* useState initial values of HomePage
HomeFresh ==
    /\ batchCode' = <<>>
    /\ loading' = FALSE
    /\ result' = NullV
    /\ hvPc' = "idle"
    /\ position' = NullV
    /\ verifyReq' = NoRequest
    /\ verifyResp' = NoResponse
    /\ verifying' = 0

\* useState initial values of AdminLogin
LoginFresh ==
    /\ credentials' = NoCredentials
    /\ loginLoading' = FALSE
    /\ loginPc' = "idle"

\* useState initial values of AdminDashboard, no fetch running: the state of
\* a dashboard that is not mounted.  What an unmounted instance's fetchData
\* still does changes no state.
DashUnmounted ==
    /\ logs' = <<>>
    /\ stats' = NullV
    /\ dashLoading' = TRUE
    /\ refreshing' = FALSE
    /\ fetchPc' = "none"
    /\ logsGet' = NotSent
    /\ statsGet' = NotSent

\* fetchData up to its await: both GETs are sent
FetchData ==
    /\ fetchPc' = "pending"
    /\ logsGet' = Pending
    /\ statsGet' = Pending

\* AdminDashboard mounts: initial state, then useEffect runs fetchData
DashMount ==
    /\ logs' = <<>>
    /\ stats' = NullV
    /\ dashLoading' = TRUE
    /\ refreshing' = FALSE
    /\ FetchData

\* A document load of `path` (address bar, reload, or one of the plain
\* <a href> links): every component starts from its initial state.
PageLoad(path) ==
    /\ isAdminAuthenticated' = FALSE
    /\ adminToken' = NullV
    /\ toast' = NoToast
    /\ route' = ResolveRoute(path, FALSE)
    /\ HomeFresh
    /\ LoginFresh
    /\ loginResp' = NoResponse
    /\ IF route' = "/admin" THEN DashMount ELSE DashUnmounted
    /\ UNCHANGED <<geoSupported, engineVars>>

-----------------------------------------------------------------------------
(* AdminLogin *)

CredTexts == {s \in Texts : Len(s) <= 1}

\* Bodies POST /api/admin/login may answer with.
LoginData ==
    {[success |-> TRUE, token |-> "token-1"],
     [success |-> TRUE],
     [success |-> FALSE, message |-> "Invalid credentials"],
     [success |-> FALSE],
     NullV}

LoginResponses ==
    {[rejected |-> TRUE, data |-> NullV]}
        \cup {[rejected |-> FALSE, data |-> d] : d \in LoginData}

\* response.data.success, where reading a property of a missing body throws
LoginThrows(data) == data = NullV

Mut_LoginSucceeds(data) == TRUE

\* if (response.data.success)
LoginSucceeds(data) == "success" \in DOMAIN data /\ data.success

\* response.data.token
TokenOf(data) == IF "token" \in DOMAIN data THEN [token |-> data.token] ELSE NullV

\* handleChange(field); the inputs are disabled while loading
HandleChange(field, v) ==
    /\ AdminLoginRendered
    /\ ~loginLoading
    /\ credentials' = [credentials EXCEPT ![field] = v]
    /\ UNCHANGED <<appVars, homeVars, loginLoading, loginPc, loginResp, dashVars,
                   engineVars>>

EnterCredentialsToast == Toast("error", "Please enter both username and password")
LoginFailedToast == Toast("error", "Login failed. Please check your credentials.")

\* handleSubmit up to its await; the button is disabled while loading
HandleSubmit ==
    /\ AdminLoginRendered
    /\ ~loginLoading
    /\ loginPc = "idle"
    /\ IF credentials.username = <<>> \/ credentials.password = <<>>
       THEN /\ toast' = EnterCredentialsToast
            /\ UNCHANGED <<loginLoading, loginPc, loginResp>>
       ELSE /\ loginLoading' = TRUE
            /\ loginPc' = "post"
            /\ loginResp' = NoResponse
            /\ UNCHANGED toast
    /\ UNCHANGED <<route, isAdminAuthenticated, adminToken, geoSupported, homeVars,
                   credentials, dashVars, engineVars>>

\* The login POST settles and handleSubmit runs to its end; on success
\* onLogin is App's handleAdminLogin, and App re-renders the route.
LoginSettle(resp) ==
    /\ AdminLoginRendered
    /\ loginPc = "post"
    /\ loginResp' = resp
    /\ IF ~resp.rejected /\ ~LoginThrows(resp.data) /\ LoginSucceeds(resp.data)
       THEN /\ toast' = Toast("success", "Login successful!")
            /\ isAdminAuthenticated' = TRUE
            /\ adminToken' = TokenOf(resp.data)
            /\ route' = ResolveRoute(route, TRUE)
            /\ IF route' = "/admin"
               THEN LoginFresh /\ DashMount
               ELSE /\ loginLoading' = FALSE
                    /\ loginPc' = "idle"
                    /\ UNCHANGED <<credentials, dashVars>>
       ELSE /\ toast' = IF resp.rejected \/ LoginThrows(resp.data)
                        THEN LoginFailedToast
                        ELSE Toast("error", IF "message" \in DOMAIN resp.data
                                            THEN resp.data.message
                                            ELSE "Login failed")
            /\ loginLoading' = FALSE
            /\ loginPc' = "idle"
            /\ UNCHANGED <<route, isAdminAuthenticated, adminToken, credentials,
                           dashVars>>
    /\ UNCHANGED <<geoSupported, homeVars, engineVars>>

\* App's handleAdminLogout, the dashboard's Logout button (rendered once the
\* dashboard is past its loading screen); App re-renders the route.
HandleAdminLogout ==
    /\ AdminDashboardRendered
    /\ ~dashLoading
    /\ isAdminAuthenticated' = FALSE
    /\ adminToken' = NullV
    /\ route' = ResolveRoute(route, FALSE)
    /\ IF route' = "/admin"
       THEN UNCHANGED <<dashVars, loginVars>>
       ELSE DashUnmounted /\ LoginFresh /\ UNCHANGED loginResp
    /\ UNCHANGED <<toast, geoSupported, homeVars, engineVars>>

-----------------------------------------------------------------------------
(* AdminDashboard *)

\* logs.slice(0, 20)
DisplayLimit == 20

\* A log record is identified by its id.  GET /api/logs answers with up to
\* MaxLogs records, newest first or oldest first.
NewestFirst(n) == [i \in 1..n |-> n + 1 - i]
OldestFirst(n) == [i \in 1..n |-> i]
LogsData == {NewestFirst(n) : n \in 0..MaxLogs} \cup {OldestFirst(n) : n \in 0..MaxLogs}

\* status_distribution is kept as its entries in key order
StatsData ==
    {[total_verifications |-> 3, total_medicines |-> 50,
      status_distribution |->
          << <<"valid", 2>>, <<"expired", 0>>, <<"fake", 1>>, <<"suspected", 0>> >>],
     [total_verifications |-> 3, total_medicines |-> 50,
      status_distribution |-> << <<"fake", 1>>, <<"valid", 2>> >>],
     [total_verifications |-> 0, total_medicines |-> 50,
      status_distribution |-> << >>]}

GetOutcomes(D) == {Rejected} \cup {Ok(d) : d \in D}

\* the records the Verification Logs tab renders, in order
DisplayedLogs(l) ==
    IF Len(l) = 0 THEN <<>> ELSE SubSeq(l, 1, Min(DisplayLimit, Len(l)))

\* key.charAt(0).toUpperCase() + key.slice(1), on the keys the endpoint uses
Capitalize(key) ==
    CASE key = "valid" -> "Valid"
      [] key = "expired" -> "Expired"
      [] key = "fake" -> "Fake"
      [] key = "suspected" -> "Suspected"

\* the dataset's backgroundColor array, in its written order
BackgroundColor == <<"#10B981", "#F59E0B", "#EF4444", "#F97316">>

\* pieChartData: labels and data follow the order of the keys of
\* stats.status_distribution; the colours are the fixed array
pieChartData(st) ==
    IF st = NullV
    THEN NullV
    ELSE LET dist == st.status_distribution
         IN  [labels |-> [i \in 1..Len(dist) |-> Capitalize(dist[i][1])],
              data |-> [i \in 1..Len(dist) |-> dist[i][2]],
              backgroundColor |-> BackgroundColor]

\* <Pie data={pieChartData}>: the i-th slice is drawn in the i-th colour
SliceColor(chart, i) == chart.backgroundColor[i]

\* the status each colour is annotated for in the source
AnnotatedColor ==
    [Valid |-> "#10B981", Expired |-> "#F59E0B", Fake |-> "#EF4444",
     Suspected |-> "#F97316"]

FetchFailedToast == Toast("error", "Failed to load dashboard data")

Mut_SetLogsAndStats(l, st) == logs' = l /\ stats' = stats

\* setLogs(logsResponse.data); setStats(statsResponse.data)
SetLogsAndStats(l, st) == logs' = l /\ stats' = st

Mut_FetchFinally ==
    /\ dashLoading' = FALSE
    /\ refreshing' = refreshing
    /\ fetchPc' = "none"

\* fetchData's finally block
FetchFinally ==
    /\ dashLoading' = FALSE
    /\ refreshing' = FALSE
    /\ fetchPc' = "none"

\* <Button onClick={handleRefresh} disabled={refreshing}>
RefreshDisabled == refreshing

\* handleRefresh; the Refresh button is rendered once loading is false
HandleRefresh ==
    /\ AdminDashboardRendered
    /\ ~dashLoading
    /\ ~RefreshDisabled
    /\ refreshing' = TRUE
    /\ FetchData
    /\ UNCHANGED <<appVars, homeVars, loginVars, logs, stats, dashLoading, engineVars>>

\* GET /api/logs settles.  Promise.all rejects at the first rejection and
\* resolves once both GETs have; fetchData then runs to its end.
LogsSettle(r) ==
    /\ AdminDashboardRendered
    /\ logsGet = Pending
    /\ logsGet' = r
    /\ IF fetchPc = "pending" /\ r = Rejected
       THEN /\ toast' = FetchFailedToast
            /\ FetchFinally
            /\ UNCHANGED <<logs, stats>>
       ELSE IF fetchPc = "pending" /\ statsGet.state = "ok"
       THEN /\ SetLogsAndStats(r.data, statsGet.data)
            /\ FetchFinally
            /\ UNCHANGED toast
       ELSE UNCHANGED <<toast, logs, stats, dashLoading, refreshing, fetchPc>>
    /\ UNCHANGED <<route, isAdminAuthenticated, adminToken, geoSupported, homeVars,
                   loginVars, statsGet, engineVars>>

\* GET /api/stats settles
StatsSettle(r) ==
    /\ AdminDashboardRendered
    /\ statsGet = Pending
    /\ statsGet' = r
    /\ IF fetchPc = "pending" /\ r = Rejected
       THEN /\ toast' = FetchFailedToast
            /\ FetchFinally
            /\ UNCHANGED <<logs, stats>>
       ELSE IF fetchPc = "pending" /\ logsGet.state = "ok"
       THEN /\ SetLogsAndStats(logsGet.data, r.data)
            /\ FetchFinally
            /\ UNCHANGED toast
       ELSE UNCHANGED <<toast, logs, stats, dashLoading, refreshing, fetchPc>>
    /\ UNCHANGED <<route, isAdminAuthenticated, adminToken, geoSupported, homeVars,
                   loginVars, logsGet, engineVars>>

-----------------------------------------------------------------------------
(* Verification Decision Engine and Stats Aggregator, from the design      *)
(* document (sections 4.1 to 4.6): the server's code is not in the tree.   *)

Statuses == {"Valid", "Expired", "Fake", "Suspected"}

\* Batch Registry as seeded: days to expiry of each record at the time of
\* the requests (before, on and past its expiry date)
DaysRemaining ==
    [c \in {"MED597233X", "MED123456A", "MED000001E"} |->
        IF c = "MED597233X" THEN 1 ELSE IF c = "MED123456A" THEN 0 ELSE -1]

\* batch codes in the registry, and one that is not
KnownCodes == DOMAIN DaysRemaining
AllCodes == KnownCodes \cup {"FAKE999999Z"}

\* anomaly scores the scorer may return, around the suspicion threshold
SuspicionThreshold == 1
Scores == {0, 1, 2}

ReqIds == 1..MaxReqs

IdleReq ==
    [pc |-> "idle", code |-> "", found |-> FALSE, seen |-> 0, score |-> 0,
     status |-> "", scans |-> 0]

\* 4.1 lookup(code) -> BatchRecord | NotFound
Found(code) == code \in KnownCodes

\* 4.2 evaluateExpiry: isExpired iff daysRemaining < 0
IsExpired(days) == days < 0

Mut_Classify(found, expired, score) ==
    IF ~found THEN "Fake"
    ELSE IF score > SuspicionThreshold THEN "Suspected"
    ELSE IF expired THEN "Expired"
    ELSE "Valid"

\* 4.4 the ordered decision
Classify(found, expired, score) ==
    IF ~found THEN "Fake"
    ELSE IF expired THEN "Expired"
    ELSE IF score > SuspicionThreshold THEN "Suspected"
    ELSE "Valid"

Mut_ScanBranch(found, status) == found /\ status # "Expired"

\* 4.4 recordScan runs on every branch that finds a record
ScanBranch(found, status) == found

Mut_ScanWrite(current, seen) == seen + 1

\* 4.1 recordScan: an atomic increment of the stored count, whatever count
\* the request's own lookup saw
ScanWrite(current, seen) == current + 1

CountOf(evs, st) == Cardinality({i \in 1..Len(evs) : evs[i].status = st})

Mut_Summarize(evs) ==
    [totalCount |-> Cardinality({i \in 1..Len(evs) : Found(evs[i].code)}),
     countsByStatus |-> [st \in Statuses |-> CountOf(evs, st)],
     totalBatches |-> Cardinality(KnownCodes)]

\* 4.6 summarize(events)
Summarize(evs) ==
    [totalCount |-> Len(evs),
     countsByStatus |-> [st \in Statuses |-> CountOf(evs, st)],
     totalBatches |-> Cardinality(KnownCodes)]

\* a verification request arrives
Receive(i, code) ==
    /\ req[i].pc = "idle"
    /\ req' = [req EXCEPT ![i] = [@ EXCEPT !.pc = "lookup", !.code = code]]
    /\ UNCHANGED <<scanCount, events, summary, appVars, homeVars, loginVars, dashVars>>

\* registry lookup; NotFound is classified at once
Lookup(i) ==
    /\ req[i].pc = "lookup"
    /\ LET c == req[i].code
           f == Found(c)
       IN req' = [req EXCEPT ![i] =
                     IF f
                     THEN [@ EXCEPT !.pc = "score", !.found = TRUE,
                                    !.seen = scanCount[c]]
                     ELSE [@ EXCEPT !.pc = "log", !.found = FALSE,
                                    !.status = Classify(FALSE, FALSE, 0)]]
    /\ UNCHANGED <<scanCount, events, summary, appVars, homeVars, loginVars, dashVars>>

\* expiry evaluation, anomaly score and classification of a found record
Score(i, sc) ==
    /\ req[i].pc = "score"
    /\ LET st == Classify(TRUE, IsExpired(DaysRemaining[req[i].code]), sc)
       IN req' = [req EXCEPT ![i] =
                     [@ EXCEPT !.score = sc, !.status = st,
                               !.pc = IF ScanBranch(TRUE, st) THEN "scan" ELSE "log"]]
    /\ UNCHANGED <<scanCount, events, summary, appVars, homeVars, loginVars, dashVars>>

\* recordScan(code)
RecordScan(i) ==
    /\ req[i].pc = "scan"
    /\ scanCount' = [scanCount EXCEPT ![req[i].code] = ScanWrite(@, req[i].seen)]
    /\ req' = [req EXCEPT ![i] = [@ EXCEPT !.pc = "log", !.scans = @ + 1]]
    /\ UNCHANGED <<events, summary, appVars, homeVars, loginVars, dashVars>>

\* Verification Logger: record(event), then the response
LogEvent(i) ==
    /\ req[i].pc = "log"
    /\ events' = Append(events, [code |-> req[i].code, status |-> req[i].status])
    /\ req' = [req EXCEPT ![i].pc = "done"]
    /\ UNCHANGED <<scanCount, summary, appVars, homeVars, loginVars, dashVars>>

\* GET /api/stats
GetStats ==
    /\ summary' = Summarize(events)
    /\ UNCHANGED <<scanCount, req, events, appVars, homeVars, loginVars, dashVars>>

-----------------------------------------------------------------------------
(* Specifications *)

InitEngine ==
    /\ scanCount = [c \in KnownCodes |-> 0]
    /\ req = [i \in ReqIds |-> IdleReq]
    /\ events = <<>>
    /\ summary = NullV

\* the state after a document load of any path
InitFrontend ==
    /\ geoSupported \in BOOLEAN
    /\ route \in {ResolveRoute(p, FALSE) : p \in Paths}
    /\ isAdminAuthenticated = FALSE
    /\ adminToken = NullV
    /\ toast = NoToast
    /\ batchCode = <<>>
    /\ loading = FALSE
    /\ result = NullV
    /\ hvPc = "idle"
    /\ position = NullV
    /\ verifyReq = NoRequest
    /\ verifyResp = NoResponse
    /\ verifying = 0
    /\ credentials = NoCredentials
    /\ loginLoading = FALSE
    /\ loginPc = "idle"
    /\ loginResp = NoResponse
    /\ logs = <<>>
    /\ stats = NullV
    /\ dashLoading = TRUE
    /\ refreshing = FALSE
    /\ fetchPc = IF route = "/admin" THEN "pending" ELSE "none"
    /\ logsGet = IF route = "/admin" THEN Pending ELSE NotSent
    /\ statsGet = IF route = "/admin" THEN Pending ELSE NotSent

Init == InitFrontend /\ InitEngine

\* the front end
Next ==
    \/ \E p \in Paths : PageLoad(p)
    \/ ToastDismiss
    \/ \E v \in Texts : InputOnChange(v)
    \/ HandleVerify
    \/ \E o \in GeoOutcomes, c \in Coords : GeoSettle(o, c)
    \/ \E r \in VerifyResponses : VerifySettle(r)
    \/ \E f \in {"username", "password"}, v \in CredTexts : HandleChange(f, v)
    \/ HandleSubmit
    \/ \E r \in LoginResponses : LoginSettle(r)
    \/ HandleAdminLogout
    \/ HandleRefresh
    \/ \E r \in GetOutcomes(LogsData) : LogsSettle(r)
    \/ \E r \in GetOutcomes(StatsData) : StatsSettle(r)

Spec == Init /\ [][Next]_vars

\* One visit to HomePage, without a document load.
HomeNext ==
    \/ ToastDismiss
    \/ \E v \in Texts : InputOnChange(v)
    \/ HandleVerify
    \/ \E o \in GeoOutcomes, c \in Coords : GeoSettle(o, c)
    \/ \E r \in VerifyResponses : VerifySettle(r)

\* getCurrentPosition is called with {timeout: 5000}: the lookup ends, by a
\* position or by an error, so the geolocation promise settles.
GeolocationTimeout == WF_vars(\E o \in GeoOutcomes, c \in Coords : GeoSettle(o, c))

\* HomePage with the progress its own timeouts guarantee.  axios.post is
\* called without a timeout (axios waits without limit by default), so
\* nothing makes the POST settle.
VerifyInit == Init /\ route = "/"

SpecVerify == VerifyInit /\ [][HomeNext]_vars /\ GeolocationTimeout

\* One session at the admin pages, without a document load.
AdminNext ==
    \/ ToastDismiss
    \/ \E f \in {"username", "password"}, v \in CredTexts : HandleChange(f, v)
    \/ HandleSubmit
    \/ \E r \in LoginResponses : LoginSettle(r)
    \/ HandleAdminLogout
    \/ HandleRefresh
    \/ \E r \in GetOutcomes(LogsData) : LogsSettle(r)
    \/ \E r \in GetOutcomes(StatsData) : StatsSettle(r)

AdminInit == Init /\ route = "/admin/login" /\ geoSupported

\* The admin pages.  Nothing in the code bounds the wait for a response, so
\* no progress is assumed here.
SpecAdmin == AdminInit /\ [][AdminNext]_vars

\* the verification engine and the stats aggregator
EngineNext ==
    \/ \E i \in ReqIds, c \in AllCodes : Receive(i, c)
    \/ \E i \in ReqIds : Lookup(i)
    \/ \E i \in ReqIds, sc \in Scores : Score(i, sc)
    \/ \E i \in ReqIds : RecordScan(i)
    \/ \E i \in ReqIds : LogEvent(i)
    \/ GetStats

\* The engine runs whatever the browser shows: one front-end state is kept.
EngineInit == Init /\ route = "/" /\ geoSupported

SpecEngine == EngineInit /\ [][EngineNext]_vars

-----------------------------------------------------------------------------
(* Claims about HomePage and App, checked under Spec *)

\* the POST of the last submit rejected, or its body could not be handled
VerifyFailed ==
    /\ verifyResp # NoResponse
    /\ verifyResp.rejected \/ "status" \notin DOMAIN verifyResp.data

\* C1: whenever the POST /api/verify attempt fails (the request rejects, or
\* handling the response throws), the result shown has status "Error", has
\* confidence 0 and carries none of the four outcome labels, so it is drawn
\* with the neutral icon and colour and never as Fake.
C1_FailureShownAsError ==
    (HomePageRendered /\ hvPc = "idle" /\ VerifyFailed) =>
        /\ ~loading
        /\ result # NullV
        /\ result.status = <<"Error", "CROSS">>
        /\ result.confidence = 0
        /\ \A i \in 1..Len(result.status) :
               result.status[i] \notin {"Valid", "Expired", "Fake", "Suspected"}
        /\ getStatusIcon(result.status) = "Shield"
        /\ getStatusColor(result.status) = "gray"

\* a resolved POST whose body has no status: handling it threw
C1_Witness ==
    /\ hvPc = "idle"
    /\ verifyResp # NoResponse
    /\ ~verifyResp.rejected
    /\ verifyResp.data = [reason |-> "no status", confidence |-> 50]
    /\ result # NullV
    /\ result.confidence = 0

SuccessfulLogin ==
    /\ loginResp # NoResponse
    /\ ~loginResp.rejected
    /\ loginResp.data # NullV
    /\ loginResp.data.success = TRUE

\* C2: the AdminDashboard is rendered only while isAdminAuthenticated is
\* true, which it is only after a successful login not followed by a logout;
\* fetchData sends GET /api/logs and GET /api/stats only in such a state, and
\* the GETs of a mounted dashboard are in flight only in such a state.
C2_DashboardOnlyWhenAuthenticated ==
    /\ [](AdminDashboardRendered => isAdminAuthenticated)
    /\ [](isAdminAuthenticated => SuccessfulLogin)
    /\ []((fetchPc = "pending" \/ logsGet # NotSent \/ statsGet # NotSent)
              => (AdminDashboardRendered /\ isAdminAuthenticated))
    /\ [][(fetchPc # "pending" /\ fetchPc' = "pending")
              => (isAdminAuthenticated' /\ AdminDashboardRendered')]_vars

\* a Refresh has sent the two GETs
C2_Witness ==
    /\ AdminDashboardRendered
    /\ isAdminAuthenticated
    /\ refreshing
    /\ logsGet = Pending
    /\ statsGet = Pending

AllSpaces(s) == \A i \in 1..Len(s) : s[i] = " "

\* C3: a submit with an empty or white-space-only batch code is rejected
\* locally: from a state with such a code no step sends a POST or starts
\* loading, and the step that shows "Please enter a batch code" is taken
\* only with such a code and leaves loading, result and the request alone.
C3_BlankSubmitRejected ==
    /\ [][(HomePageRendered /\ AllSpaces(batchCode))
              => /\ ~loading'
                 /\ hvPc' = "idle"
                 /\ verifyReq' \in {verifyReq, NoRequest}]_vars
    /\ [][(toast' = EnterCodeToast /\ toast # EnterCodeToast)
              => /\ AllSpaces(batchCode)
                 /\ UNCHANGED <<batchCode, loading, result, hvPc, verifyReq,
                                verifyResp>>]_vars

\* a white-space-only code was submitted while an earlier result is shown
C3_Witness ==
    /\ toast = EnterCodeToast
    /\ batchCode # <<>>
    /\ AllSpaces(batchCode)
    /\ result # NullV
    /\ ~loading

\* C4: the code of every POST /api/verify is non-empty, has no leading or
\* trailing white space and is upper-case; batchCode itself never holds a
\* lower-case letter.
C4_CodeTrimmedUpperCase ==
    /\ \A i \in 1..Len(batchCode) : batchCode[i] # "a"
    /\ verifyReq # NoRequest =>
           LET code == verifyReq.code IN
           /\ Len(code) > 0
           /\ code[1] # " "
           /\ code[Len(code)] # " "
           /\ \A i \in 1..Len(code) : code[i] # "a"

\* a request whose code is shorter than the batchCode it was trimmed from
C4_Witness ==
    /\ verifyReq # NoRequest
    /\ Len(verifyReq.code) < Len(batchCode)
    /\ hvPc = "post"

\* C5: geolocation is optional.  A submit that starts loading goes on to the
\* POST: at once when geolocation is unsupported, and after the lookup
\* however it ends (a position, denied, unavailable, timed out); the only
\* other way out of the lookup is a document load.  Every request carries
\* lat and lng together, exactly when a position was obtained.
C5_GeolocationOptional ==
    /\ [](verifyReq # NoRequest =>
             /\ ("lat" \in DOMAIN verifyReq) <=> ("lng" \in DOMAIN verifyReq)
             /\ ("lat" \in DOMAIN verifyReq) <=> (position # NullV))
    /\ [][(~loading /\ loading') =>
             IF geoSupported
             THEN hvPc' = "geo"
             ELSE hvPc' = "post" /\ verifyReq' = [code |-> Trim(batchCode)]]_vars
    /\ [][(hvPc = "geo" /\ hvPc' # "geo") =>
             \/ hvPc' = "post" /\ loading' /\ verifyReq' # NoRequest
                  /\ verifyReq'.code = Trim(batchCode)
             \/ hvPc' = "idle" /\ ~loading' /\ result' = NullV /\ batchCode' = <<>>]_vars

\* the lookup ended without a position and the POST was sent without lat, lng
C5_Witness ==
    /\ geoSupported
    /\ hvPc = "post"
    /\ position = NullV
    /\ verifyReq # NoRequest
    /\ DOMAIN verifyReq = {"code"}

\* C10: every log record GET /api/logs returned is displayed, in the order
\* returned.
C10_AllLogsDisplayed ==
    (AdminDashboardRendered /\ ~dashLoading) => DisplayedLogs(logs) = logs

-----------------------------------------------------------------------------
(* Claims about the verification engine and the stats aggregator, checked  *)
(* under SpecEngine                                                        *)

Classified(i) == req[i].pc \in {"scan", "log", "done"}

\* C6: the status of every request follows one ordered decision: Fake iff
\* the code is not in the registry; otherwise Expired iff the record is
\* expired, whatever the anomaly score; otherwise Suspected iff the score
\* exceeds the suspicion threshold; otherwise Valid.  The status is always
\* one of the four, and the logged event carries it.
C6_OrderedDecision ==
    /\ \A i \in ReqIds : Classified(i) =>
           LET c == req[i].code
               known == c \in DOMAIN DaysRemaining
               expired == known /\ DaysRemaining[c] < 0
               high == req[i].score > SuspicionThreshold
               st == req[i].status
           IN /\ st \in {"Valid", "Expired", "Fake", "Suspected"}
              /\ (st = "Fake") <=> ~known
              /\ (st = "Expired") <=> expired
              /\ (st = "Suspected") <=> (known /\ ~expired /\ high)
              /\ (st = "Valid") <=> (known /\ ~expired /\ ~high)
    /\ \A k \in 1..Len(events) :
           LET c == events[k].code
               known == c \in DOMAIN DaysRemaining
           IN /\ events[k].status \in {"Valid", "Expired", "Fake", "Suspected"}
              /\ (events[k].status = "Fake") <=> ~known
              /\ (events[k].status = "Expired") <=> (known /\ DaysRemaining[c] < 0)

\* an expired record with a score above the threshold came out Expired, and
\* a record on its expiry date with such a score came out Suspected
C6_Witness ==
    \E i, j \in ReqIds :
        /\ req[i].pc = "done" /\ req[i].status = "Expired"
        /\ req[i].score > SuspicionThreshold
        /\ req[j].pc = "done" /\ req[j].status = "Suspected"
        /\ DaysRemaining[req[j].code] = 0

\* requests that have been through recordScan for code c
Scanned(c) == {i \in ReqIds : req[i].code = c /\ req[i].pc \in {"log", "done"}}

\* C7: concurrent verifications of one known code raise its scan count by
\* exactly the number of them that have recorded their scan, under every
\* interleaving: no increment is lost.
C7_NoLostScan ==
    \A c \in KnownCodes : scanCount[c] = Cardinality(Scanned(c))

\* two requests for one code both looked the record up before either
\* recorded its scan, and both scans are counted
C7_Witness ==
    \E i, j \in ReqIds :
        /\ i # j
        /\ req[i].code = req[j].code
        /\ req[i].pc = "done" /\ req[j].pc = "done"
        /\ req[i].found /\ req[i].seen = 0 /\ req[j].seen = 0
        /\ scanCount[req[i].code] = 2

\* C8: recordScan runs exactly once for every request that finds a record,
\* whichever of Expired, Suspected or Valid results, and never for a request
\* whose code is unknown (Fake); no scan count ever decreases.
C8_ScanOncePerHit ==
    /\ [](\A i \in ReqIds :
             /\ req[i].scans <= 1
             /\ req[i].status = "Fake" => req[i].scans = 0
             /\ req[i].pc \in {"log", "done"} =>
                    req[i].scans = IF req[i].code \in KnownCodes THEN 1 ELSE 0)
    /\ [][\A c \in KnownCodes : scanCount'[c] >= scanCount[c]]_vars

\* an Expired request that recorded its scan and a Fake one that did not
C8_Witness ==
    \E i, j \in ReqIds :
        /\ req[i].pc = "done" /\ req[i].status = "Expired" /\ req[i].scans = 1
        /\ req[j].pc = "done" /\ req[j].status = "Fake" /\ req[j].scans = 0

SumOfCounts(s) ==
    s.countsByStatus["Valid"] + s.countsByStatus["Expired"]
        + s.countsByStatus["Fake"] + s.countsByStatus["Suspected"]

WellFormedSummary(s) ==
    /\ DOMAIN s.countsByStatus = {"Valid", "Expired", "Fake", "Suspected"}
    /\ \A st \in DOMAIN s.countsByStatus : s.countsByStatus[st] >= 0
    /\ SumOfCounts(s) = s.totalCount

\* C9: for every event log the summary's per-status counts sum to the number
\* of events, all four statuses are present in the mapping, and over zero
\* events every count is zero; the snapshot served by GET /api/stats is such
\* a summary of a prefix of the log.
C9_SummaryCounts ==
    /\ WellFormedSummary(Summarize(events))
    /\ Summarize(events).totalCount = Len(events)
    /\ WellFormedSummary(Summarize(<<>>))
    /\ Summarize(<<>>).totalCount = 0
    /\ \A st \in Statuses : Summarize(<<>>).countsByStatus[st] = 0
    /\ summary # NullV =>
           /\ WellFormedSummary(summary)
           /\ summary.totalCount <= Len(events)

\* a snapshot over a Fake and another event, with a status that is absent
C9_Witness ==
    /\ summary # NullV
    /\ summary.totalCount = 2
    /\ summary.countsByStatus["Fake"] = 1
    /\ summary.countsByStatus["Suspected"] = 0

-----------------------------------------------------------------------------
(* Further claims about the front end *)

\* the first of the four label words, in the order Valid, Expired, Fake,
\* Suspected, that a status text holds
FirstLabel(st) ==
    LET has(w) == \E i \in 1..Len(st) : st[i] = w IN
    IF has("Valid") THEN "Valid"
    ELSE IF has("Expired") THEN "Expired"
    ELSE IF has("Fake") THEN "Fake"
    ELSE IF has("Suspected") THEN "Suspected"
    ELSE "none"

IconOfLabel ==
    [Valid |-> "CheckCircle", Expired |-> "AlertCircle", Fake |-> "XCircle",
     Suspected |-> "HelpCircle", none |-> "Shield"]

ColorOfLabel ==
    [Valid |-> "emerald", Expired |-> "amber", Fake |-> "red",
     Suspected |-> "orange", none |-> "gray"]

ToastKindOfLabel ==
    [Valid |-> "success", Expired |-> "warning", Fake |-> "error",
     Suspected |-> "error", none |-> "error"]

\* C11: for every status shown, getStatusIcon and getStatusColor pick the
\* category of the same label word, with the precedence Valid, Expired, Fake,
\* Suspected, and the neutral default for any other status; the toast of a
\* handled response is success for Valid, warning for Expired and error for
\* every other status.
C11_IconColorToastAgree ==
    /\ [](result # NullV =>
             /\ getStatusIcon(result.status) = IconOfLabel[FirstLabel(result.status)]
             /\ getStatusColor(result.status) = ColorOfLabel[FirstLabel(result.status)])
    /\ [][(/\ hvPc = "post"
           /\ hvPc' = "idle"
           /\ verifyResp' # NoResponse
           /\ ~verifyResp'.rejected
           /\ "status" \in DOMAIN verifyResp'.data)
              => /\ result' = verifyResp'.data
                 /\ toast'.kind = ToastKindOfLabel[FirstLabel(result'.status)]]_vars

\* a status holding both Expired and Valid is shown as Valid
C11_Witness ==
    /\ result # NullV
    /\ result.status = <<"Expired", "Valid">>
    /\ toast.kind = "success"
    /\ getStatusColor(result.status) = "emerald"

\* C12: every verification started in HomePage (loading set to true)
\* eventually ends with loading false and a non-null result.
C12_VerificationEnds == loading ~> (~loading /\ result # NullV)

\* The login POST has just settled with this step.
LoginSettled == loginPc = "post" /\ loginResp' # NoResponse

\* The settled login response is fulfilled and its body's success is truthy.
SuccessAnswer ==
    /\ ~loginResp'.rejected
    /\ "success" \in DOMAIN loginResp'.data
    /\ loginResp'.data.success

\* C13: isAdminAuthenticated becomes true only by a login response whose
\* success flag is truthy; a submit with an empty username or password sends
\* no request; a response with success false, or a rejected request, leaves
\* isAdminAuthenticated and adminToken unchanged.
C13_AuthenticatedOnlyBySuccess ==
    [][/\ (~isAdminAuthenticated /\ isAdminAuthenticated')
            => (LoginSettled /\ SuccessAnswer)
       /\ (loginPc = "idle" /\ (credentials.username = <<>> \/ credentials.password = <<>>))
            => (loginPc' = "idle" /\ ~loginLoading')
       /\ (LoginSettled /\ ~SuccessAnswer)
            => (isAdminAuthenticated' = isAdminAuthenticated /\ adminToken' = adminToken)]_vars

C13_Witness ==
    /\ AdminLoginRendered
    /\ ~isAdminAuthenticated
    /\ adminToken = NullV
    /\ loginResp = [rejected |-> FALSE,
                    data |-> [success |-> FALSE, message |-> "Invalid credentials"]]
    /\ toast = Toast("error", "Invalid credentials")

\* C14: in the dashboard's pie chart every status's slice has the colour
\* annotated for that status, whatever status_distribution was returned.
C14_SliceColours ==
    (AdminDashboardRendered /\ stats # NullV)
        => LET chart == pieChartData(stats)
           IN  \A i \in 1..Len(chart.labels) :
                   SliceColor(chart, i) = AnnotatedColor[chart.labels[i]]

\* C15: at most one verification is in flight per HomePage: from the start
\* of handleVerify until its finally block runs, loading is true, the input
\* and the submit button are disabled, and no second handleVerify starts.
C15_OneVerificationInFlight ==
    /\ [](verifying \in {0, 1})
    /\ [](verifying = 1 <=> hvPc # "idle")
    /\ [](verifying = 1 => (loading /\ InputDisabled /\ SubmitButtonDisabled))
    /\ [][verifying = 1 => (verifying' <= 1 /\ batchCode' \in {batchCode, <<>>}
                            /\ (hvPc = "post" => hvPc' # "geo"))]_vars

C15_Witness ==
    /\ verifying = 1
    /\ hvPc = "post"
    /\ loading
    /\ ~IsBlank(batchCode)
    /\ verifyReq # NoRequest

\* a fetch of the mounted dashboard ends with this step
FetchEnds == fetchPc = "pending" /\ fetchPc' = "none" /\ AdminDashboardRendered'

\* C16: fetchData updates logs and stats together or not at all: a fetch in
\* which either GET fails changes neither, and logs or stats of a mounted
\* dashboard change only at the end of a fetch whose two GETs both
\* succeeded, both to the data of that fetch's responses.
C16_LogsAndStatsTogether ==
    [][/\ (FetchEnds /\ (logsGet' = Rejected \/ statsGet' = Rejected))
            => (logs' = logs /\ stats' = stats)
       /\ (FetchEnds /\ logsGet' # Rejected /\ statsGet' # Rejected)
            => (/\ logsGet'.state = "ok" /\ statsGet'.state = "ok"
                /\ logs' = logsGet'.data /\ stats' = statsGet'.data)
       /\ (AdminDashboardRendered /\ AdminDashboardRendered'
             /\ (logs' # logs \/ stats' # stats))
            => FetchEnds]_vars

\* a Refresh whose logs GET succeeded with other records and whose stats GET
\* failed: the records shown before are still shown
C16_Witness ==
    /\ AdminDashboardRendered
    /\ fetchPc = "none"
    /\ stats # NullV
    /\ statsGet = Rejected
    /\ logsGet.state = "ok"
    /\ logsGet.data # logs

\* each GET of a fetch succeeds or fails: none stays unanswered for ever
EveryGetSettles == []<>(logsGet # Pending) /\ []<>(statsGet # Pending)

FetchInFlight == AdminDashboardRendered /\ fetchPc = "pending"

C18_AuthenticatedIffToken == isAdminAuthenticated <=> (adminToken # NullV)

=============================================================================
